---- MODULE Spec2Model ----
(***************************************************************************)
(* LoRAPruneTrainer._inner_training_loop (src/loraprune/trainer_ul.py):    *)
(* the two-stream (forget, retain) training loop, the sensitivity          *)
(* trackers it feeds, the sparsity schedule it evaluates and the gated     *)
(* unlearning-aware pruning it applies.                                    *)
(*                                                                         *)
(* One batch of a dataloader is one action (the whole loop body).  The     *)
(* helpers of loraprune.utils and loraprune.utils_ul are not part of the   *)
(* sources at hand; they are modelled from the written specification.      *)
(*                                                                         *)
(* Numbers: ratios, fractions and the threshold are tenths (5 for 0.5);    *)
(* a computed ratio or score is an exact fraction <<num, den>>, den > 0.   *)
(***************************************************************************)
EXTENDS Integers, Sequences, FiniteSets

\* ------------------------------------------------------------------ bounds
\* Most batches a planned run holds: num_train_epochs * (forget + retain).
MaxBatches == 5
\* Largest max_steps, and how far past it global_step runs, when the
\* schedule is checked on its own.
MaxTotalSteps == 8

\* The parameter groups of the model (each one prunable element), in the
\* order the model lists them.
Groups == {1, 2, 3}
\* Weight of every group before training.
InitWeights == [g \in Groups |-> 2]
\* Configurations the runs are drawn from.
GradAccumSteps == {1, 2}
\* args.max_steps; a value <= 0 means "not set".
ArgsMaxSteps == {-1, 2}
\* args.max_steps, args.num_train_epochs and the batches the dataloaders
\* yield, for the runs that check the planning of a run.
SetupMaxSteps == {-1, 0, 1, 2}
SetupEpochs == {0, 1, 2}
SetupForgetLens == {0, 1}
SetupRetainLens == {1, 2}
PruneFreqs == {1, 2}
PruneMetrics == {"lora", "grad"}
\* <<warmup_iters, cooldown_iters>> in tenths.
WarmupCooldowns == {<<0, 0>>, <<2, 2>>}
\* <<init_ratio, ratio>> in tenths.
RatioPairs == {<<0, 10>>}
Thresholds == {5}
\* Fractions and ratios (tenths) the schedule is checked on, on its own.
SchedFractions == {0, 1, 3, 5, 7, 10}
SchedRatios == {0, 2, 5, 10}
\* The values of max_steps the schedule is checked on: every small one, and
\* the 100 steps of the specification's scenario A.
SchedTotals == (1..MaxTotalSteps) \cup {100}
\* Accumulated sensitivities and target ratios (tenths) the combiner and the
\* applicator are checked on, on their own.
SensValues == {0, 1, 2, 10}
SensStart == {0, 1}
CombineRatios == {4, 7}

VARIABLES
    \* configuration, fixed at construction
    deepspeed,                  \* self.deepspeed is set
    gradient_accumulation_steps,
    args_max_steps, args_num_train_epochs,
    forget_len,                 \* len(forget_dataloader), 0 if there is none
    retain_len,                 \* len(train_dataloader)
    has_length,                 \* both dataloaders report a length (line 99)
    resume_from_checkpoint,     \* global_step of the trainer state saved in the
                                \* checkpoint resumed from, -1 for None
    prune_freq, prune_metric,
    warmup_iters, cooldown_iters, init_ratio, final_ratio,
    unlearning_threshold,
    \* TrainerState and TrainerControl
    global_step, max_steps, should_training_stop,
    should_epoch_stop,
    stop_request,               \* what a callback besides the default flow
                                \* callback asks for at a step end: kind "none",
                                \* "training" or "epoch", at a value of global_step
    \* locals of _inner_training_loop
    num_train_epochs,
    pc, epoch, step, total_batched_samples, ratio, grad_norm_bound,
    forget_sensitivity_dict, retain_sensitivity_dict, dual_sensitivity,
    decision,                   \* the groups the last applicator call pruned
    \* the model
    weight, grad, pruned,
    grad_streams,               \* the streams whose batches the held gradient
                                \* has accumulated since the last zero_grad
    \* what the last executed batch did
    stream, calls

config == <<deepspeed, gradient_accumulation_steps, args_max_steps,
            args_num_train_epochs, forget_len, retain_len, prune_freq, prune_metric,
            warmup_iters, cooldown_iters, init_ratio, final_ratio,
            unlearning_threshold, max_steps, num_train_epochs, has_length,
            resume_from_checkpoint, stop_request>>

vars == <<deepspeed, gradient_accumulation_steps, args_max_steps,
          args_num_train_epochs, num_train_epochs, forget_len, retain_len,
          prune_freq, prune_metric, warmup_iters, cooldown_iters,
          init_ratio, final_ratio, unlearning_threshold,
          global_step, max_steps, should_training_stop,
          pc, epoch, step, total_batched_samples, ratio, grad_norm_bound,
          forget_sensitivity_dict, retain_sensitivity_dict, dual_sensitivity,
          decision, weight, grad, pruned, stream, calls, has_length,
          resume_from_checkpoint, grad_streams, should_epoch_stop, stop_request>>

\* ---------------------------------------------------------------- helpers
Abs(x) == IF x < 0 THEN -x ELSE x
Max(a, b) == IF a >= b THEN a ELSE b

\* Exact comparison of fractions <<n, d>> with d > 0.
FracLT(a, b) == a[1] * b[2] < b[1] * a[2]
FracLE(a, b) == a[1] * b[2] <= b[1] * a[2]
FracEQ(a, b) == a[1] * b[2] = b[1] * a[2]
Tenths(x) == <<x, 10>>

ZeroGroups == [g \in Groups |-> 0]
NoneDual == [g \in Groups |-> <<0, 1>>]
Has(s, c) == \E i \in 1..Len(s) : s[i] = c
Count(s, c) == Cardinality({i \in 1..Len(s) : s[i] = c})
First(s, c) == CHOOSE i \in 1..Len(s) : s[i] = c /\ \A j \in 1..(i - 1) : s[j] # c

\* ------------------------------------------- loraprune.utils / utils_ul
\* utils.init_sensitivity_dict: zero over all parameter groups.
init_sensitivity_dict == ZeroGroups

\* The non-negative contribution of one update: "lora" reads the adapter's
\* effective contribution (no gradient), "grad" is |weight| * |gradient|.
Importance(w, gr, metric, g) ==
    IF metric = "lora" THEN Abs(w[g]) ELSE Abs(w[g]) * Abs(gr[g])

\* utils.update_sensitivity_dict: cumulative-sum accumulation per group.
update_sensitivity_dict(w, gr, sd, metric) ==
    [g \in Groups |-> sd[g] + Importance(w, gr, metric, g)]

\* utils.schedule_sparsity_ratio, piecewise over p = s / total; w, c, i, f in
\* tenths.  The rising segment is the linear interpolation from i to f.
schedule_sparsity_ratio(s, total, w, c, i, f) ==
    IF s * 10 < w * total THEN Tenths(i)
    ELSE IF w + c >= 10 THEN Tenths(f)
    ELSE IF s * 10 >= (10 - c) * total THEN Tenths(f)
    ELSE <<i * (10 - c - w) * total + (f - i) * (s * 10 - w * total),
           10 * (10 - c - w) * total>>

\* 1 / eps of utils_ul.compute_dual_sensitivity.
EpsInv == 100

\* utils_ul.compute_dual_sensitivity: forget / (retain + eps).
compute_dual_sensitivity(fv, rv) == <<fv * EpsInv, rv * EpsInv + 1>>

\* h is ranked before g: higher dual score, ties in the model's group order.
RankedBefore(dual, h, g) ==
    FracLT(dual[g], dual[h]) \/ (FracEQ(dual[g], dual[h]) /\ h < g)

\* utils_ul.unlearning_prune: the elements newly pruned.  Among the unpruned
\* elements whose score exceeds the threshold, the top ones by score, as
\* many as bring the pruned count up to floor(target * number of elements).
PruneSelection(m, dual, target, threshold) ==
    LET need == (target[1] * Cardinality(Groups)) \div target[2]
                    - Cardinality({g \in Groups : m[g]})
        cand == {g \in Groups : ~m[g] /\ FracLT(Tenths(threshold), dual[g])}
    IN  {g \in cand : Cardinality({h \in cand : RankedBefore(dual, h, g)}) < need}

\* utils_ul.unlearning_prune: selected elements are zeroed and masked for
\* good; nothing already pruned is touched.
unlearning_prune(w, m, dual, target, threshold) ==
    LET sel == PruneSelection(m, dual, target, threshold)
    IN  [weight |-> [g \in Groups |-> IF g \in sel THEN 0 ELSE w[g]],
         pruned |-> [g \in Groups |-> m[g] \/ g \in sel],
         decision |-> sel]

\* ------------------------------------------------ _inner_training_loop
\* Lines 105-106: update steps per epoch over both dataloaders.
num_update_steps_per_epoch(fl, rl, gas) == Max((fl + rl) \div gas, 1)

\* Lines 113-122: <<max_steps, num_train_epochs>> for sized dataloaders.
PlannedSteps(ams, epochs, nupe) ==
    IF ams > 0
    THEN <<ams, ams \div nupe + (IF ams % nupe > 0 THEN 1 ELSE 0)>>
    ELSE <<epochs * nupe, epochs>>

\* Line 125: sys.maxsize, held at the largest integer the model counts with;
\* no run reaches that many epochs.
SysMaxSize == 2147483647

\* Mutant: without lengths, args.max_steps is taken as it is, set or not.
TrainingPlanNoRaise(hl, ams, epochs, nupe) ==
    IF hl
    THEN [max_steps |-> PlannedSteps(ams, epochs, nupe)[1],
          num_train_epochs |-> PlannedSteps(ams, epochs, nupe)[2],
          error |-> FALSE]
    ELSE [max_steps |-> ams, num_train_epochs |-> SysMaxSize, error |-> FALSE]

\* Lines 98-132: the plan of the run.  Without dataloader lengths
\* args.max_steps decides alone, and a value <= 0 raises ValueError before
\* state.max_steps is assigned (it keeps the 0 of a new TrainerState).
TrainingPlan(hl, ams, epochs, nupe) ==
    IF hl
    THEN [max_steps |-> PlannedSteps(ams, epochs, nupe)[1],
          num_train_epochs |-> PlannedSteps(ams, epochs, nupe)[2],
          error |-> FALSE]
    ELSE IF ams > 0
    THEN [max_steps |-> ams, num_train_epochs |-> SysMaxSize, error |-> FALSE]
    ELSE [max_steps |-> 0, num_train_epochs |-> 0, error |-> TRUE]

\* Lines 251-255: the retain dataloader's length, also in the forget loop;
\* without lengths, args.max_steps * gradient_accumulation_steps.
steps_in_epoch ==
    IF has_length THEN retain_len ELSE args_max_steps * gradient_accumulation_steps

\* self.training_step: backward adds the batch's gradient to the held one.
training_step(gr, b) == [g \in Groups |-> gr[g] + b[g]]

\* Mutant: the optimizer also steps the masked elements.
OptimizerStepIgnoresMask(w, gr, m) == [g \in Groups |-> w[g] - gr[g]]

\* optimizer.step(): a gradient step on every element that is not masked.
optimizer_step(w, gr, m) == [g \in Groups |-> IF m[g] THEN w[g] ELSE w[g] - gr[g]]

\* Lines 285-287 and 371-373, self.deepspeed.step(): at the engine's own
\* accumulation boundary it runs the optimizer and the learning-rate
\* scheduler and clears the gradients.
deepspeed_step(w, gr, m, tbs) ==
    IF deepspeed /\ tbs % gradient_accumulation_steps = 0
    THEN [weight |-> optimizer_step(w, gr, m), grad |-> ZeroGroups,
          calls |-> <<"deepspeed.step", "optimizer_update", "lr_scheduler_update">>]
    ELSE [weight |-> w, grad |-> gr,
          calls |-> IF deepspeed THEN <<"deepspeed.step">> ELSE <<>>]

\* Lines 271, 285-287 and 357, 371-373: the streams in the held gradient
\* after the backward pass of a batch of stream s and the engine's step,
\* which clears the gradients at the engine's own boundary.
HeldStreams(held, s, tbs) ==
    IF deepspeed /\ tbs % gradient_accumulation_steps = 0 THEN {} ELSE held \cup {s}

\* Mutant: only the shared batch counter closes a window.
IsBoundaryNoShortEpoch(tbs, st) == tbs % gradient_accumulation_steps = 0

\* Lines 289-293 and 375-379: the batch closes an accumulation window.
IsBoundary(tbs, st) ==
    \/ tbs % gradient_accumulation_steps = 0
    \/ steps_in_epoch <= gradient_accumulation_steps /\ st + 1 = steps_in_epoch

\* Lines 295 and 381: clipping runs, and binds grad_norm, without DeepSpeed
\* (args.max_grad_norm keeps its positive default).
ClipsGradNorm == ~deepspeed

\* Mutant: the forget stream's update lands in the retain dict.
ForgetTrackerStepWrongDict(fd, rd, w, gr) ==
    [forget |-> fd,
     retain |-> IF ~deepspeed THEN update_sensitivity_dict(w, gr, rd, prune_metric) ELSE rd,
     calls  |-> IF ~deepspeed THEN <<"update_sensitivity_dict">> ELSE <<>>]

\* Lines 316-318: the forget stream's tracker update.
ForgetTrackerStep(fd, rd, w, gr) ==
    [forget |-> IF ~deepspeed THEN update_sensitivity_dict(w, gr, fd, prune_metric) ELSE fd,
     retain |-> rd,
     calls  |-> IF ~deepspeed THEN <<"update_sensitivity_dict">> ELSE <<>>]

\* Mutant: the retain update starts from a fresh dict instead of the
\* accumulated one.
RetainTrackerStepFresh(fd, rd, w, gr) ==
    [forget |-> fd,
     retain |-> IF ~deepspeed
                THEN update_sensitivity_dict(w, gr, init_sensitivity_dict, prune_metric)
                ELSE rd,
     calls  |-> IF ~deepspeed THEN <<"update_sensitivity_dict">> ELSE <<>>]

\* Lines 402-404: the retain stream's tracker update.
RetainTrackerStep(fd, rd, w, gr) ==
    [forget |-> fd,
     retain |-> IF ~deepspeed THEN update_sensitivity_dict(w, gr, rd, prune_metric) ELSE rd,
     calls  |-> IF ~deepspeed THEN <<"update_sensitivity_dict">> ELSE <<>>]

\* Mutant: init_ratio and ratio passed in each other's place.
ScheduleCallSwappedRatios(gs) ==
    schedule_sparsity_ratio(gs, max_steps, warmup_iters, cooldown_iters,
                            final_ratio, init_ratio)

\* Mutant: the two ratios passed before the two fractions.
ScheduleCallRatiosFirst(gs) ==
    schedule_sparsity_ratio(gs, max_steps, init_ratio, final_ratio,
                            warmup_iters, cooldown_iters)

\* Mutant: warmup_iters and cooldown_iters passed in each other's place.
ScheduleCallSwappedFractions(gs) ==
    schedule_sparsity_ratio(gs, max_steps, cooldown_iters, warmup_iters,
                            init_ratio, final_ratio)

\* Lines 319-321 and 405-407: the schedule at the current global step.
ScheduleCall(gs) ==
    schedule_sparsity_ratio(gs, max_steps, warmup_iters, cooldown_iters,
                            init_ratio, final_ratio)

\* Mutant: the gate without its cadence test.
PruneGateNoCadence(gs, r) ==
    /\ FracLT(Tenths(init_ratio), r)
    /\ FracLT(r, Tenths(final_ratio))

\* Mutant: the cadence counted from the step after the current one.
PruneGateOffByOne(gs, r) ==
    /\ (gs + 1) % prune_freq = 0
    /\ FracLT(Tenths(init_ratio), r)
    /\ FracLT(r, Tenths(final_ratio))

\* Line 409: the pruning gate.
PruneGate(gs, r) ==
    /\ gs % prune_freq = 0
    /\ FracLT(Tenths(init_ratio), r)
    /\ FracLT(r, Tenths(final_ratio))

\* Mutant: the two dicts read in each other's place.
DualScoresSwapped(fd, rd) ==
    [g \in Groups |-> compute_dual_sensitivity(rd[g], fd[g])]

\* Mutant: the retain value left out of the score.
DualScoresForgetOnly(fd, rd) ==
    [g \in Groups |-> compute_dual_sensitivity(fd[g], 0)]

\* Mutant: every group scored against the retain value of the first group.
DualScoresStaleRetain(fd, rd) ==
    [g \in Groups |-> compute_dual_sensitivity(fd[g], rd[1])]

\* Lines 411-416: the transient dual mapping, one score per group.
DualScores(fd, rd) ==
    [g \in Groups |-> compute_dual_sensitivity(fd[g], rd[g])]

\* Mutant: the applicator called with init_ratio where the threshold goes.
PruneCallWrongThreshold(w, m, dual, r) == unlearning_prune(w, m, dual, r, init_ratio)

\* Lines 419-424: the applicator call.
PruneCall(w, m, dual, r) == unlearning_prune(w, m, dual, r, unlearning_threshold)

\* Lines 409-424: the gated pruning of a retain-stream boundary.
RetainPrune(gs, r, fd, rd, w, m) ==
    IF PruneGate(gs, r)
    THEN LET dual == DualScores(fd, rd)
             res  == PruneCall(w, m, dual, r)
         IN  [weight |-> res.weight, pruned |-> res.pruned, dual |-> dual,
              decision |-> res.decision,
              calls |-> <<"compute_dual_sensitivity", "unlearning_prune">>]
    ELSE [weight |-> w, pruned |-> m, dual |-> NoneDual, decision |-> {},
          calls |-> <<>>]

\* Lines 426-435: the retain stream's optimizer section.
RetainOptimizer(w, gr, m) ==
    [weight |-> optimizer_step(w, gr, m),
     calls  |-> <<"optimizer.step", "optimizer_update">>
                 \o (IF ~deepspeed THEN <<"lr_scheduler.step", "lr_scheduler_update">>
                     ELSE <<>>)]

\* Lines 327-335: the forget stream's optimizer section: both calls are
\* commented out.
ForgetOptimizer(w, gr, m) == [weight |-> w, calls |-> <<>>]

\* Lines 338 and 437, on_step_end: the default flow callback asks to stop
\* once global_step has reached max_steps; another callback may ask for
\* should_training_stop at a step end of its own choosing.
on_step_end(gs) ==
    gs >= max_steps \/ (stop_request.kind = "training" /\ stop_request.at = gs)

\* Lines 338 and 437, on_step_end: a callback's request for should_epoch_stop.
EpochStopRequested(gs) == stop_request.kind = "epoch" /\ stop_request.at = gs

\* No callback besides the default flow callback asks for anything.
NoStopRequest == [kind |-> "none", at |-> 0]

\* Mutant: the forget loop is left after its first batch.
AfterForgetBatchLeavesEarly(stop, st) == [pc |-> "retain", step |-> 0]

\* Mutant: a stop request in the forget loop ends the epoch at once.
AfterForgetBatchStopEndsEpoch(stop, st) ==
    IF stop THEN [pc |-> "epoch_end", step |-> st]
    ELSE IF st + 1 = forget_len THEN [pc |-> "retain", step |-> 0]
    ELSE [pc |-> "forget", step |-> st + 1]

\* Lines 266, 344-345 and 348: after a forget batch the forget loop goes
\* on, or, at its end or on a stop request, the retain loop starts.
AfterForgetBatch(stop, st) ==
    IF stop \/ st + 1 = forget_len
    THEN [pc |-> "retain", step |-> 0]
    ELSE [pc |-> "forget", step |-> st + 1]

\* Lines 348 and 443-444: after a retain batch the retain loop goes on, or,
\* at its end or on a stop request, the epoch ends.
AfterRetainBatch(stop, st) ==
    IF stop \/ st + 1 = retain_len
    THEN [pc |-> "epoch_end", step |-> st]
    ELSE [pc |-> "retain", step |-> st + 1]

\* The gradients one batch can produce: it excites one group, or all.
Batches ==
    {[g \in Groups |-> IF g = h THEN 1 ELSE 0] : h \in Groups}
        \cup {[g \in Groups |-> 1]}

\* ------------------------------------------------------------ the machine
\* Line 234 and lines 264-348: an epoch starts with the forget stream when
\* there is a forget dataloader with batches.
FirstStream == IF forget_len > 0 THEN "forget" ELSE "retain"

Init ==
    /\ deepspeed \in BOOLEAN
    /\ gradient_accumulation_steps \in GradAccumSteps
    /\ args_max_steps \in ArgsMaxSteps
    /\ args_num_train_epochs \in 1..MaxBatches
    /\ forget_len \in 0..MaxBatches
    /\ retain_len \in 1..MaxBatches
    /\ prune_freq \in PruneFreqs
    /\ prune_metric \in PruneMetrics
    /\ \E wc \in WarmupCooldowns : warmup_iters = wc[1] /\ cooldown_iters = wc[2]
    /\ \E rp \in RatioPairs : init_ratio = rp[1] /\ final_ratio = rp[2]
    /\ unlearning_threshold \in Thresholds
    /\ LET plan == PlannedSteps(args_max_steps, args_num_train_epochs,
                       num_update_steps_per_epoch(forget_len, retain_len,
                                                  gradient_accumulation_steps))
       IN  /\ max_steps = plan[1]
           /\ num_train_epochs = plan[2]
           /\ plan[2] * (forget_len + retain_len) <= MaxBatches
           /\ args_max_steps > 0 => args_num_train_epochs = 1
    /\ global_step = 0
    /\ should_training_stop = FALSE
    /\ should_epoch_stop = FALSE
    /\ stop_request = NoStopRequest
    /\ pc = FirstStream
    /\ epoch = 0
    /\ step = 0
    /\ total_batched_samples = 0
    /\ ratio = Tenths(init_ratio)
    /\ grad_norm_bound = FALSE
    /\ forget_sensitivity_dict = init_sensitivity_dict
    /\ retain_sensitivity_dict = init_sensitivity_dict
    /\ dual_sensitivity = NoneDual
    /\ decision = {}
    /\ weight = InitWeights
    /\ grad = ZeroGroups
    /\ pruned = [g \in Groups |-> FALSE]
    /\ stream = "none"
    /\ calls = <<>>
    /\ has_length = TRUE
    /\ resume_from_checkpoint = -1
    /\ grad_streams = {}

\* Lines 266-345: one batch of the forget dataloader.
ForgetStep ==
    /\ pc = "forget"
    /\ \E b \in Batches :
        LET tbs      == total_batched_samples + 1
            g1       == training_step(grad, b)
            ds       == deepspeed_step(weight, g1, pruned, tbs)
            boundary == IsBoundary(tbs, step)
            tr       == ForgetTrackerStep(forget_sensitivity_dict,
                                          retain_sensitivity_dict, ds.weight, ds.grad)
            op       == ForgetOptimizer(ds.weight, ds.grad, pruned)
            bound    == grad_norm_bound \/ (boundary /\ ClipsGradNorm)
            stop     == should_training_stop
                            \/ (boundary /\ on_step_end(global_step + 1))
            estop    == should_epoch_stop
                            \/ (boundary /\ EpochStopRequested(global_step + 1))
        IN  /\ total_batched_samples' = tbs
            /\ stream' = "forget"
            /\ grad_norm_bound' = bound
            /\ should_training_stop' = stop
            /\ should_epoch_stop' = estop
            /\ IF boundary
               THEN /\ forget_sensitivity_dict' = tr.forget
                    /\ retain_sensitivity_dict' = tr.retain
                    /\ ratio' = ScheduleCall(global_step)
                    /\ weight' = op.weight
                    /\ grad' = ZeroGroups
                    /\ grad_streams' = {}
                    /\ global_step' = global_step + 1
                    /\ calls' = <<"training_step">> \o ds.calls \o tr.calls
                                  \o <<"schedule_sparsity_ratio">> \o op.calls
                                  \o <<"zero_grad", "global_step">>
               ELSE /\ weight' = ds.weight
                    /\ grad' = ds.grad
                    /\ grad_streams' = HeldStreams(grad_streams, "forget", tbs)
                    /\ calls' = <<"training_step">> \o ds.calls
                    /\ UNCHANGED <<forget_sensitivity_dict, retain_sensitivity_dict,
                                   ratio, global_step>>
            /\ IF boundary /\ ~bound
               THEN \* line 340 reads grad_norm, which was never assigned
                    pc' = "error" /\ step' = step
               ELSE /\ pc' = AfterForgetBatch(stop \/ estop, step).pc
                    /\ step' = AfterForgetBatch(stop \/ estop, step).step
    /\ UNCHANGED <<config, epoch, dual_sensitivity, decision, pruned>>

\* Lines 348-444: one batch of the retain dataloader.
RetainStep ==
    /\ pc = "retain"
    /\ \E b \in Batches :
        LET tbs      == total_batched_samples + 1
            g1       == training_step(grad, b)
            ds       == deepspeed_step(weight, g1, pruned, tbs)
            boundary == IsBoundary(tbs, step)
            tr       == RetainTrackerStep(forget_sensitivity_dict,
                                          retain_sensitivity_dict, ds.weight, ds.grad)
            r        == ScheduleCall(global_step)
            pr       == RetainPrune(global_step, r, tr.forget, tr.retain,
                                    ds.weight, pruned)
            op       == RetainOptimizer(pr.weight, ds.grad, pr.pruned)
            bound    == grad_norm_bound \/ (boundary /\ ClipsGradNorm)
            stop     == should_training_stop
                            \/ (boundary /\ on_step_end(global_step + 1))
            estop    == should_epoch_stop
                            \/ (boundary /\ EpochStopRequested(global_step + 1))
        IN  /\ total_batched_samples' = tbs
            /\ stream' = "retain"
            /\ grad_norm_bound' = bound
            /\ should_training_stop' = stop
            /\ should_epoch_stop' = estop
            /\ IF boundary
               THEN /\ forget_sensitivity_dict' = tr.forget
                    /\ retain_sensitivity_dict' = tr.retain
                    /\ ratio' = r
                    /\ dual_sensitivity' = pr.dual
                    /\ decision' = pr.decision
                    /\ pruned' = pr.pruned
                    /\ weight' = op.weight
                    /\ grad' = ZeroGroups
                    /\ grad_streams' = {}
                    /\ global_step' = global_step + 1
                    /\ calls' = <<"training_step">> \o ds.calls \o tr.calls
                                  \o <<"schedule_sparsity_ratio">> \o pr.calls
                                  \o op.calls \o <<"zero_grad", "global_step">>
               ELSE /\ weight' = ds.weight
                    /\ grad' = ds.grad
                    /\ grad_streams' = HeldStreams(grad_streams, "retain", tbs)
                    /\ calls' = <<"training_step">> \o ds.calls
                    /\ UNCHANGED <<forget_sensitivity_dict, retain_sensitivity_dict,
                                   ratio, dual_sensitivity, decision, pruned,
                                   global_step>>
            /\ IF boundary /\ ~bound
               THEN \* line 439 reads grad_norm, which was never assigned
                    pc' = "error" /\ step' = step
               ELSE /\ pc' = AfterRetainBatch(stop \/ estop, step).pc
                    /\ step' = AfterRetainBatch(stop \/ estop, step).step
    /\ UNCHANGED <<config, epoch>>

\* Lines 453-458 and 234, 256: the end of an epoch, and the start of the
\* next, where on_epoch_begin clears should_epoch_stop.
EpochEnd ==
    /\ pc = "epoch_end"
    /\ IF should_training_stop \/ epoch + 1 >= num_train_epochs
       THEN pc' = "done" /\ UNCHANGED <<epoch, step, should_epoch_stop>>
       ELSE /\ pc' = FirstStream /\ epoch' = epoch + 1 /\ step' = 0
            /\ should_epoch_stop' = FALSE
    /\ stream' = "none"
    /\ calls' = <<>>
    /\ UNCHANGED <<config, global_step, should_training_stop, total_batched_samples,
                   ratio, grad_norm_bound, forget_sensitivity_dict,
                   retain_sensitivity_dict, dual_sensitivity, decision, weight, grad,
                   pruned, grad_streams>>

Next == ForgetStep \/ RetainStep \/ EpochEnd

Spec == Init /\ [][Next]_vars

\* ------------------------------------------------ runs with stop requests
\* The requests a callback can make at a step end: none, or one request
\* for should_training_stop or should_epoch_stop at some global_step.
StopRequests ==
    {NoStopRequest}
        \cup {[kind |-> k, at |-> n] : k \in {"training", "epoch"}, n \in 1..MaxBatches}

\* Lines 85-232: the loop entered as in Init, with a callback that makes
\* one of the requests.
StopInit ==
    /\ deepspeed \in BOOLEAN
    /\ gradient_accumulation_steps \in GradAccumSteps
    /\ args_max_steps \in ArgsMaxSteps
    /\ args_num_train_epochs \in 1..MaxBatches
    /\ forget_len \in 0..MaxBatches
    /\ retain_len \in 1..MaxBatches
    /\ prune_freq = 1
    /\ prune_metric = "lora"
    /\ warmup_iters = 0
    /\ cooldown_iters = 0
    /\ \E rp \in RatioPairs : init_ratio = rp[1] /\ final_ratio = rp[2]
    /\ unlearning_threshold \in Thresholds
    /\ has_length = TRUE
    /\ resume_from_checkpoint = -1
    /\ LET plan == PlannedSteps(args_max_steps, args_num_train_epochs,
                       num_update_steps_per_epoch(forget_len, retain_len,
                                                  gradient_accumulation_steps))
       IN  /\ max_steps = plan[1]
           /\ num_train_epochs = plan[2]
           /\ plan[2] * (forget_len + retain_len) <= MaxBatches
           /\ args_max_steps > 0 => args_num_train_epochs = 1
           /\ stop_request \in StopRequests
           /\ stop_request.at <= plan[1]
    /\ global_step = 0
    /\ should_training_stop = FALSE
    /\ should_epoch_stop = FALSE
    /\ pc = FirstStream
    /\ epoch = 0
    /\ step = 0
    /\ total_batched_samples = 0
    /\ ratio = Tenths(init_ratio)
    /\ grad_norm_bound = FALSE
    /\ forget_sensitivity_dict = init_sensitivity_dict
    /\ retain_sensitivity_dict = init_sensitivity_dict
    /\ dual_sensitivity = NoneDual
    /\ decision = {}
    /\ weight = InitWeights
    /\ grad = ZeroGroups
    /\ pruned = [g \in Groups |-> FALSE]
    /\ stream = "none"
    /\ calls = <<>>
    /\ grad_streams = {}

StopSpec == StopInit /\ [][Next]_vars

\* ------------------------------------------------ a run that resumes
\* Mutant: the saved trainer state is not loaded.
ResumedProgressNotLoaded(saved, nupe) ==
    [global_step |-> 0, epochs_trained |-> 0]

\* Lines 184-188: the trainer state saved in the checkpoint replaces
\* self.state, and the epochs it covers are skipped.
ResumedProgress(saved, nupe) ==
    [global_step |-> saved, epochs_trained |-> saved \div nupe]

\* Lines 184-232: the loop entered with resume_from_checkpoint set, over
\* the configurations of Init.  The model is the checkpoint's (nothing
\* pruned yet); the counters and dicts local to the loop start afresh.
ResumeInit ==
    /\ deepspeed \in BOOLEAN
    /\ gradient_accumulation_steps \in GradAccumSteps
    /\ args_max_steps \in ArgsMaxSteps
    /\ args_num_train_epochs \in 1..MaxBatches
    /\ forget_len \in 0..MaxBatches
    /\ retain_len \in 1..MaxBatches
    /\ prune_freq \in PruneFreqs
    /\ prune_metric \in PruneMetrics
    /\ \E wc \in WarmupCooldowns : warmup_iters = wc[1] /\ cooldown_iters = wc[2]
    /\ \E rp \in RatioPairs : init_ratio = rp[1] /\ final_ratio = rp[2]
    /\ unlearning_threshold \in Thresholds
    /\ has_length = TRUE
    /\ LET nupe == num_update_steps_per_epoch(forget_len, retain_len,
                                              gradient_accumulation_steps)
           plan == PlannedSteps(args_max_steps, args_num_train_epochs, nupe)
       IN  /\ max_steps = plan[1]
           /\ num_train_epochs = plan[2]
           /\ plan[2] * (forget_len + retain_len) <= MaxBatches
           /\ args_max_steps > 0 => args_num_train_epochs = 1
           /\ resume_from_checkpoint \in 1..plan[1]
           /\ LET rp == ResumedProgress(resume_from_checkpoint, nupe)
              IN  /\ global_step = rp.global_step
                  /\ epoch = rp.epochs_trained
                  /\ pc = IF rp.epochs_trained < plan[2] THEN FirstStream ELSE "done"
    /\ should_training_stop = FALSE
    /\ should_epoch_stop = FALSE
    /\ stop_request = NoStopRequest
    /\ step = 0
    /\ total_batched_samples = 0
    /\ ratio = Tenths(init_ratio)
    /\ grad_norm_bound = FALSE
    /\ forget_sensitivity_dict = init_sensitivity_dict
    /\ retain_sensitivity_dict = init_sensitivity_dict
    /\ dual_sensitivity = NoneDual
    /\ decision = {}
    /\ weight = InitWeights
    /\ grad = ZeroGroups
    /\ pruned = [g \in Groups |-> FALSE]
    /\ stream = "none"
    /\ calls = <<>>
    /\ grad_streams = {}

ResumeSpec == ResumeInit /\ [][Next]_vars

\* ------------------------------------------------ the planning of a run
\* Lines 85-232 over dataloaders with and without a length, args.max_steps
\* set or not, and args.num_train_epochs down to 0.  Without lengths
\* forget_len and retain_len are the batches the iterators yield per epoch.
SetupInit ==
    /\ deepspeed \in BOOLEAN
    /\ gradient_accumulation_steps \in GradAccumSteps
    /\ args_max_steps \in SetupMaxSteps
    /\ args_num_train_epochs \in SetupEpochs
    /\ forget_len \in SetupForgetLens
    /\ retain_len \in SetupRetainLens
    /\ has_length \in BOOLEAN
    /\ prune_freq = 1
    /\ prune_metric \in PruneMetrics
    /\ \E wc \in WarmupCooldowns : warmup_iters = wc[1] /\ cooldown_iters = wc[2]
    /\ \E rp \in RatioPairs : init_ratio = rp[1] /\ final_ratio = rp[2]
    /\ unlearning_threshold \in Thresholds
    /\ resume_from_checkpoint = -1
    /\ LET plan == TrainingPlan(has_length, args_max_steps, args_num_train_epochs,
                       num_update_steps_per_epoch(forget_len, retain_len,
                                                  gradient_accumulation_steps))
       IN  /\ max_steps = plan.max_steps
           /\ num_train_epochs = plan.num_train_epochs
           /\ has_length => plan.num_train_epochs * (forget_len + retain_len) <= MaxBatches
           /\ pc = IF plan.error THEN "error"
                   ELSE IF 0 < plan.num_train_epochs THEN FirstStream
                   ELSE "done"
    /\ global_step = 0
    /\ should_training_stop = FALSE
    /\ should_epoch_stop = FALSE
    /\ stop_request = NoStopRequest
    /\ epoch = 0
    /\ step = 0
    /\ total_batched_samples = 0
    /\ ratio = Tenths(init_ratio)
    /\ grad_norm_bound = FALSE
    /\ forget_sensitivity_dict = init_sensitivity_dict
    /\ retain_sensitivity_dict = init_sensitivity_dict
    /\ dual_sensitivity = NoneDual
    /\ decision = {}
    /\ weight = InitWeights
    /\ grad = ZeroGroups
    /\ pruned = [g \in Groups |-> FALSE]
    /\ stream = "none"
    /\ calls = <<>>
    /\ grad_streams = {}

SetupSpec == SetupInit /\ [][Next]_vars

\* ------------------------------------------------ the schedule on its own
\* The schedule as the loop calls it (lines 319-321, 405-407), evaluated at
\* successive values of global_step for every argument combination.
SchedInit ==
    /\ deepspeed = FALSE
    /\ gradient_accumulation_steps = 1
    /\ args_max_steps \in SchedTotals
    /\ args_num_train_epochs = 1
    /\ forget_len = 0
    /\ retain_len = 1
    /\ prune_freq = 1
    /\ prune_metric = "lora"
    /\ warmup_iters \in SchedFractions
    /\ cooldown_iters \in SchedFractions
    /\ init_ratio \in SchedRatios
    /\ final_ratio \in SchedRatios
    /\ unlearning_threshold = 5
    /\ max_steps = args_max_steps
    /\ num_train_epochs = args_max_steps
    /\ global_step = 0
    /\ should_training_stop = FALSE
    /\ should_epoch_stop = FALSE
    /\ stop_request = NoStopRequest
    /\ pc = "schedule"
    /\ epoch = 0
    /\ step = 0
    /\ total_batched_samples = 0
    /\ ratio = ScheduleCall(0)
    /\ grad_norm_bound = FALSE
    /\ forget_sensitivity_dict = init_sensitivity_dict
    /\ retain_sensitivity_dict = init_sensitivity_dict
    /\ dual_sensitivity = NoneDual
    /\ decision = {}
    /\ weight = InitWeights
    /\ grad = ZeroGroups
    /\ pruned = [g \in Groups |-> FALSE]
    /\ stream = "none"
    /\ calls = <<"schedule_sparsity_ratio">>
    /\ has_length = TRUE
    /\ resume_from_checkpoint = -1
    /\ grad_streams = {}

\* global_step advances (lines 336, 435) and the schedule is evaluated at
\* the new value (lines 319-321, 405-407).
SchedStep ==
    /\ pc = "schedule"
    /\ global_step < max_steps + 2
    /\ global_step' = global_step + 1
    /\ ratio' = ScheduleCall(global_step + 1)
    /\ UNCHANGED <<config, should_training_stop, should_epoch_stop, pc, epoch, step,
                   total_batched_samples, grad_norm_bound, forget_sensitivity_dict,
                   retain_sensitivity_dict, dual_sensitivity, decision, weight, grad,
                   pruned, stream, calls, grad_streams>>

SchedNext == SchedStep

SchedSpec == SchedInit /\ [][SchedNext]_vars

\* ------------------------------- the combiner and the applicator on their own
\* Lines 411-424 on every pair of accumulated dicts: the dual mapping as the
\* loop builds it, recomputed as either dict grows, and one applicator call.
CombineInit ==
    /\ deepspeed = FALSE
    /\ gradient_accumulation_steps = 1
    /\ args_max_steps = 1
    /\ args_num_train_epochs = 1
    /\ forget_len = 0
    /\ retain_len = 1
    /\ prune_freq = 1
    /\ prune_metric = "lora"
    /\ warmup_iters = 0
    /\ cooldown_iters = 0
    /\ init_ratio = 0
    /\ final_ratio = 10
    /\ unlearning_threshold = 5
    /\ max_steps = 1
    /\ num_train_epochs = 1
    /\ global_step = 0
    /\ should_training_stop = FALSE
    /\ should_epoch_stop = FALSE
    /\ stop_request = NoStopRequest
    /\ pc = "combine"
    /\ epoch = 0
    /\ step = 0
    /\ total_batched_samples = 0
    /\ \E r \in CombineRatios : ratio = Tenths(r)
    /\ grad_norm_bound = FALSE
    /\ forget_sensitivity_dict \in [Groups -> SensStart]
    /\ retain_sensitivity_dict \in [Groups -> SensStart]
    /\ dual_sensitivity = DualScores(forget_sensitivity_dict, retain_sensitivity_dict)
    /\ decision = {}
    /\ weight = InitWeights
    /\ grad = ZeroGroups
    /\ pruned = [g \in Groups |-> FALSE]
    /\ stream = "retain"
    /\ calls = <<"compute_dual_sensitivity">>
    /\ has_length = TRUE
    /\ resume_from_checkpoint = -1
    /\ grad_streams = {}

\* Lines 318 and 411-416: the forget value of one group grows, and the dual
\* mapping is built again.
CombineForget ==
    /\ pc = "combine"
    /\ \E g \in Groups : \E v \in SensValues :
          /\ v > forget_sensitivity_dict[g]
          /\ forget_sensitivity_dict' = [forget_sensitivity_dict EXCEPT ![g] = v]
    /\ dual_sensitivity' = DualScores(forget_sensitivity_dict', retain_sensitivity_dict)
    /\ UNCHANGED <<config, global_step, should_training_stop, should_epoch_stop,
                   pc, epoch, step,
                   total_batched_samples, ratio, grad_norm_bound,
                   retain_sensitivity_dict, decision, weight, grad, pruned, stream,
                   calls, grad_streams>>

\* Lines 404 and 411-416: the retain value of one group grows, and the dual
\* mapping is built again.
CombineRetain ==
    /\ pc = "combine"
    /\ \E g \in Groups : \E v \in SensValues :
          /\ v > retain_sensitivity_dict[g]
          /\ retain_sensitivity_dict' = [retain_sensitivity_dict EXCEPT ![g] = v]
    /\ dual_sensitivity' = DualScores(forget_sensitivity_dict, retain_sensitivity_dict')
    /\ UNCHANGED <<config, global_step, should_training_stop, should_epoch_stop,
                   pc, epoch, step,
                   total_batched_samples, ratio, grad_norm_bound,
                   forget_sensitivity_dict, decision, weight, grad, pruned, stream,
                   calls, grad_streams>>

\* Lines 419-424: the applicator is called with the dual mapping.
CombinePrune ==
    /\ pc = "combine"
    /\ LET res == PruneCall(weight, pruned, dual_sensitivity, ratio)
       IN  /\ weight' = res.weight
           /\ pruned' = res.pruned
           /\ decision' = res.decision
    /\ pc' = "combined"
    /\ calls' = <<"compute_dual_sensitivity", "unlearning_prune">>
    /\ UNCHANGED <<config, global_step, should_training_stop, should_epoch_stop,
                   epoch, step,
                   total_batched_samples, ratio, grad_norm_bound,
                   forget_sensitivity_dict, retain_sensitivity_dict,
                   dual_sensitivity, grad, stream, grad_streams>>

CombineNext == CombineForget \/ CombineRetain \/ CombinePrune

CombineSpec == CombineInit /\ [][CombineNext]_vars

\* ================================================================ claims
InWindow(r) == FracLT(Tenths(init_ratio), r) /\ FracLT(r, Tenths(final_ratio))
PrunedSet == {g \in Groups : pruned[g]}
\* The last action was a batch that closed an accumulation window.
CountedStep == Has(calls, "global_step")
TargetCount(r) == (r[1] * Cardinality(Groups)) \div r[2]

\* C1: no forget-stream batch runs an optimizer update or a learning-rate
\* scheduler step, with or without a DeepSpeed engine.
C1_ForgetStepRunsNoOptimizer ==
    stream = "forget" =>
        /\ ~Has(calls, "optimizer_update")
        /\ ~Has(calls, "lr_scheduler_update")

\* C2: dual scores are computed, the applicator is called and elements are
\* pruned only in a step whose global_step is a multiple of prune_freq and
\* whose scheduled ratio is strictly above init_ratio.
C2_PruneOnlyAtGate ==
    [][(\/ Has(calls', "compute_dual_sensitivity")
        \/ Has(calls', "unlearning_prune")
        \/ pruned' # pruned)
       => /\ global_step % prune_freq = 0
          /\ global_step' = global_step + 1
          /\ FracLT(Tenths(init_ratio), ratio')]_vars

\* C2 witness: a retain step off the cadence, with the ratio inside the
\* window and forget sensitivity accumulated, that pruned nothing.
C2_Witness ==
    /\ stream = "retain" /\ CountedStep
    /\ prune_freq = 2 /\ (global_step - 1) % prune_freq = 1
    /\ InWindow(ratio) /\ TargetCount(ratio) >= 1
    /\ \E g \in Groups : forget_sensitivity_dict[g] > 0 /\ retain_sensitivity_dict[g] = 0
    /\ ~Has(calls, "unlearning_prune") /\ PrunedSet = {}

\* C3 as stated: every step counted by global_step that is on the cadence
\* with the ratio in the rising window computes the dual scores and calls
\* the applicator.
C3_EveryCountedStepPrunes ==
    [][(/\ global_step' = global_step + 1
        /\ global_step % prune_freq = 0
        /\ InWindow(ratio'))
       => /\ Has(calls', "compute_dual_sensitivity")
          /\ Has(calls', "unlearning_prune")]_vars

\* C3 amended: every retain-stream step counted by global_step that is on
\* the cadence with the ratio in the rising window computes the dual scores
\* and calls the applicator (forget-stream steps never do).
C3_EveryRetainCountedStepPrunes ==
    [][(/\ stream' = "retain"
        /\ global_step' = global_step + 1
        /\ global_step % prune_freq = 0
        /\ InWindow(ratio'))
       => /\ Has(calls', "compute_dual_sensitivity")
          /\ Has(calls', "unlearning_prune")]_vars

\* C3 witness: a retain step on a cadence of 2 that ran the applicator.
C3_Witness ==
    /\ stream = "retain" /\ CountedStep
    /\ prune_freq = 2 /\ (global_step - 1) % prune_freq = 0
    /\ InWindow(ratio)
    /\ Has(calls, "compute_dual_sensitivity") /\ Has(calls, "unlearning_prune")

\* C4: a forget batch leaves the retain dict alone, a retain batch leaves
\* the forget dict alone, and the dual mapping of a pruning decision is the
\* combination of the two dicts as they stand after the step.
C4_TrackersIndependent ==
    [][/\ (stream' = "forget" /\ total_batched_samples' # total_batched_samples)
            => retain_sensitivity_dict' = retain_sensitivity_dict
       /\ (stream' = "retain" /\ total_batched_samples' # total_batched_samples)
            => forget_sensitivity_dict' = forget_sensitivity_dict
       /\ Has(calls', "compute_dual_sensitivity")
            => dual_sensitivity' =
                 [g \in Groups |-> <<forget_sensitivity_dict'[g] * EpsInv,
                                     retain_sensitivity_dict'[g] * EpsInv + 1>>]]_vars

\* C4 witness: a pruning decision taken with both dicts fed, differently.
C4_Witness ==
    /\ Has(calls, "compute_dual_sensitivity")
    /\ forget_sensitivity_dict # ZeroGroups
    /\ retain_sensitivity_dict # ZeroGroups
    /\ forget_sensitivity_dict # retain_sensitivity_dict

\* C5: every batch that advances global_step has updated its stream's
\* tracker exactly once, before the increment, DeepSpeed or not.
C5_CountedStepUpdatesTracker ==
    CountedStep =>
        /\ Count(calls, "update_sensitivity_dict") = 1
        /\ First(calls, "update_sensitivity_dict") < First(calls, "global_step")

\* C6: in a retain batch that runs an optimizer update, the tracker update
\* and the schedule evaluation, and the dual scores and the pruning when
\* they run, all come before the first optimizer update, and the schedule
\* is evaluated at the global_step the batch started with.
C6_EngineBeforeOptimizer ==
    (stream = "retain" /\ Has(calls, "optimizer_update")) =>
        LET k == First(calls, "optimizer_update")
        IN  /\ Has(calls, "update_sensitivity_dict")
            /\ Has(calls, "schedule_sparsity_ratio")
            /\ \A i \in 1..Len(calls) :
                   calls[i] \in {"update_sensitivity_dict", "schedule_sparsity_ratio",
                                 "compute_dual_sensitivity", "unlearning_prune"}
                       => i < k
            /\ CountedStep
            /\ ratio = ScheduleCall(global_step - 1)

\* C7: a pruned element stays pruned and zero through every later step,
\* pruning events and optimizer updates included.
C7_StickyPruning ==
    [][\A g \in Groups :
          /\ pruned[g] => pruned'[g]
          /\ pruned'[g] => weight'[g] = 0]_vars

\* C7 witness: a pruning event that pruned new elements, followed by the
\* optimizer update of its step, with an element pruned at an earlier event.
C7_Witness ==
    /\ Has(calls, "unlearning_prune") /\ Has(calls, "optimizer_update")
    /\ decision # {}
    /\ \E g \in Groups : pruned[g] /\ g \notin decision /\ weight[g] = 0

\* C8: no element whose dual score is at most unlearning_threshold is
\* pruned at a pruning event.
C8_ThresholdGate ==
    [][\A g \in Groups :
          (pruned'[g] /\ ~pruned[g])
              => FracLT(Tenths(unlearning_threshold), dual_sensitivity'[g])]_vars

\* C8 witness: a shortfall: fewer elements pruned than the target asks for,
\* an element pruned, and an unpruned one with a positive score at or below
\* the threshold.
C8_Witness ==
    /\ Has(calls, "unlearning_prune")
    /\ decision # {}
    /\ Cardinality(PrunedSet) < TargetCount(ratio)
    /\ \E g \in Groups :
          /\ ~pruned[g]
          /\ dual_sensitivity[g][1] > 0
          /\ FracLE(dual_sensitivity[g], Tenths(unlearning_threshold))

Min(a, b) == IF a <= b THEN a ELSE b
C10_ScheduleBounded ==
    /\ FracLE(Tenths(Min(init_ratio, final_ratio)), ratio)
    /\ FracLE(ratio, Tenths(Max(init_ratio, final_ratio)))

\* C10 witness: a ratio strictly inside the bounds, with init_ratio above
\* the final ratio.
C10_Witness ==
    /\ pc = "schedule"
    /\ init_ratio > final_ratio
    /\ FracLT(Tenths(final_ratio), ratio)
    /\ FracLT(ratio, Tenths(init_ratio))

\* The segments of the schedule at the current step, p = global_step / max_steps.
BelowWarmup == global_step * 10 < warmup_iters * max_steps
AtWarmup == global_step * 10 = warmup_iters * max_steps
InCooldown == global_step * 10 >= (10 - cooldown_iters) * max_steps
StrictlyBetweenRatios(r) ==
    \/ FracLT(Tenths(init_ratio), r) /\ FracLT(r, Tenths(final_ratio))
    \/ FracLT(Tenths(final_ratio), r) /\ FracLT(r, Tenths(init_ratio))

\* C11 as stated: the schedule is exactly init_ratio for p < warmup_frac,
\* exactly the final ratio for p >= 1 - cooldown_frac, and strictly between
\* the two on the whole rising segment warmup_frac <= p < 1 - cooldown_frac.
C11_ScheduleSegments ==
    /\ BelowWarmup => FracEQ(ratio, Tenths(init_ratio))
    /\ InCooldown => FracEQ(ratio, Tenths(final_ratio))
    /\ (~BelowWarmup /\ ~InCooldown) => StrictlyBetweenRatios(ratio)

\* C11 amended: exactly init_ratio for p < warmup_frac and at the start
\* p = warmup_frac of a rising segment, exactly the final ratio for
\* p >= 1 - cooldown_frac with p >= warmup_frac, and, when the two ratios
\* differ, strictly between them for warmup_frac < p < 1 - cooldown_frac.
C11_ScheduleSegmentsOpenRise ==
    /\ BelowWarmup => FracEQ(ratio, Tenths(init_ratio))
    /\ (AtWarmup /\ ~InCooldown) => FracEQ(ratio, Tenths(init_ratio))
    /\ (InCooldown /\ ~BelowWarmup) => FracEQ(ratio, Tenths(final_ratio))
    /\ (~BelowWarmup /\ ~AtWarmup /\ ~InCooldown /\ init_ratio # final_ratio)
           => StrictlyBetweenRatios(ratio)

\* C11 witness: scenario A at step 50 of 100 (warmup 0.1, cooldown 0.1,
\* init_ratio 0, final ratio 0.5): a ratio strictly between 0 and 0.5, with
\* step 5 at exactly 0 and step 95 at exactly 0.5.
C11_Witness ==
    /\ pc = "schedule" /\ max_steps = 100 /\ global_step = 50
    /\ warmup_iters = 1 /\ cooldown_iters = 1
    /\ init_ratio = 0 /\ final_ratio = 5
    /\ StrictlyBetweenRatios(ratio)
    /\ FracEQ(ScheduleCall(5), Tenths(0))
    /\ FracEQ(ScheduleCall(95), Tenths(5))

\* C12: the accumulated value of every group in either dict never decreases
\* from one step to the next and is never negative.
C12_SensitivityNonDecreasing ==
    [][\A g \in Groups :
          /\ forget_sensitivity_dict'[g] >= forget_sensitivity_dict[g]
          /\ retain_sensitivity_dict'[g] >= retain_sensitivity_dict[g]
          /\ forget_sensitivity_dict'[g] >= 0
          /\ retain_sensitivity_dict'[g] >= 0]_vars

\* C12 witness: a tracker update after several counted steps, with both
\* dicts fed and the retain dict holding different positive amounts.
C12_Witness ==
    /\ Has(calls, "update_sensitivity_dict") /\ global_step >= 3
    /\ \E g, h \in Groups :
          /\ retain_sensitivity_dict[g] > retain_sensitivity_dict[h]
          /\ retain_sensitivity_dict[h] > 0
          /\ forget_sensitivity_dict[g] > 0

\* C13: the dual score of a group does not decrease when its forget value
\* grows with the retain value fixed, and does not increase when its retain
\* value grows with the forget value fixed.
C13_DualScoreMonotone ==
    [][\A g \in Groups :
          /\ (/\ forget_sensitivity_dict'[g] >= forget_sensitivity_dict[g]
              /\ retain_sensitivity_dict'[g] = retain_sensitivity_dict[g])
                => FracLE(dual_sensitivity[g], dual_sensitivity'[g])
          /\ (/\ retain_sensitivity_dict'[g] >= retain_sensitivity_dict[g]
              /\ forget_sensitivity_dict'[g] = forget_sensitivity_dict[g])
                => FracLE(dual_sensitivity'[g], dual_sensitivity[g])]_vars

\* C13 witness: after growth of both dicts, two groups with the same retain
\* value, the one with the larger forget value scored strictly higher, and
\* two with the same forget value, the one with the larger retain value
\* scored strictly lower.
C13_Witness ==
    /\ pc = "combine"
    /\ \E g, h \in Groups :
          /\ forget_sensitivity_dict[g] = 10
          /\ forget_sensitivity_dict[g] > forget_sensitivity_dict[h]
          /\ retain_sensitivity_dict[g] = retain_sensitivity_dict[h]
          /\ FracLT(dual_sensitivity[h], dual_sensitivity[g])
    /\ \E g, h \in Groups :
          /\ retain_sensitivity_dict[g] = 10
          /\ retain_sensitivity_dict[g] > retain_sensitivity_dict[h]
          /\ forget_sensitivity_dict[g] = forget_sensitivity_dict[h]
          /\ forget_sensitivity_dict[g] > 0
          /\ FracLT(dual_sensitivity[g], dual_sensitivity[h])

\* Scenario B of the specification: forget = {A: 10, B: 1}, retain =
\* {A: 1, B: 10} for groups 1 (A) and 2 (B); the third group has no forget
\* sensitivity and takes no part.
ScenarioB ==
    /\ forget_sensitivity_dict[1] = 10 /\ retain_sensitivity_dict[1] = 1
    /\ forget_sensitivity_dict[2] = 1 /\ retain_sensitivity_dict[2] = 10
    /\ forget_sensitivity_dict[3] = 0
    /\ unlearning_threshold = 5

\* C14: an applicator call prunes no element while it keeps an unpruned
\* element with a strictly higher dual score that passes the threshold; in
\* scenario B with a target of one element, A is pruned and B is untouched.
C14_SelectionByDualScore ==
    [][/\ \A g, h \in Groups :
             (pruned'[g] /\ ~pruned[g] /\ ~pruned'[h])
                 => ~(/\ FracLT(compute_dual_sensitivity(forget_sensitivity_dict'[g],
                                                         retain_sensitivity_dict'[g]),
                                compute_dual_sensitivity(forget_sensitivity_dict'[h],
                                                         retain_sensitivity_dict'[h]))
                      /\ FracLT(Tenths(unlearning_threshold),
                                compute_dual_sensitivity(forget_sensitivity_dict'[h],
                                                         retain_sensitivity_dict'[h])))
       /\ (ScenarioB /\ pc = "combine" /\ pc' = "combined" /\ TargetCount(ratio) = 1)
             => (pruned'[1] /\ weight'[1] = 0 /\ ~pruned'[2] /\ weight'[2] = weight[2])]_vars

\* C14 witness: scenario B after the applicator call: exactly A pruned.
C14_Witness ==
    /\ pc = "combined" /\ ScenarioB /\ TargetCount(ratio) = 1
    /\ Has(calls, "unlearning_prune")
    /\ decision = {1} /\ PrunedSet = {1}
    /\ weight[1] = 0 /\ weight[2] = InitWeights[2]

\* C15: when the retain value of a group is 0 at a pruning decision, its
\* dual score is a well-formed finite number (no division by zero) and is
\* the largest the combiner gives for the group's forget value.
C15_ZeroRetainScoreMaximal ==
    Has(calls, "compute_dual_sensitivity") =>
        \A g \in Groups :
            retain_sensitivity_dict[g] = 0 =>
                /\ dual_sensitivity[g][2] > 0
                /\ dual_sensitivity[g][1] >= 0
                /\ \A rv \in 0..(2 * MaxBatches) :
                       FracLE(compute_dual_sensitivity(forget_sensitivity_dict[g], rv),
                              dual_sensitivity[g])

\* C15 witness: a pruning decision of the loop that pruned a group whose
\* retain value was still 0, with forget sensitivity accumulated, while
\* another group had a retain value above 0.
C15_Witness ==
    /\ pc # "combined" /\ stream = "retain"
    /\ Has(calls, "compute_dual_sensitivity") /\ Has(calls, "unlearning_prune")
    /\ \E g, h \in Groups :
          /\ retain_sensitivity_dict[g] = 0 /\ forget_sensitivity_dict[g] > 0
          /\ g \in decision
          /\ retain_sensitivity_dict[h] > 0

\* C16: after a resume the loop starts with global_step at the saved value
\* and both dicts zero; global_step goes on from there; and the step that
\* first advances it leaves in the dicts, and in the dual mapping of a
\* pruning decision, only what the batches since the resume contributed.
C16_ResumeColdTrackers ==
    [][/\ total_batched_samples = 0
            => /\ global_step = resume_from_checkpoint
               /\ forget_sensitivity_dict = ZeroGroups
               /\ retain_sensitivity_dict = ZeroGroups
       /\ global_step' >= resume_from_checkpoint
       /\ (global_step = resume_from_checkpoint /\ global_step' = global_step + 1)
            => /\ \E b \in Batches :
                    LET fresh == IF deepspeed THEN ZeroGroups
                                 ELSE update_sensitivity_dict(
                                          weight, training_step(grad, b),
                                          ZeroGroups, prune_metric)
                    IN  IF stream' = "forget"
                        THEN /\ forget_sensitivity_dict' = fresh
                             /\ retain_sensitivity_dict' = ZeroGroups
                        ELSE /\ forget_sensitivity_dict' = ZeroGroups
                             /\ retain_sensitivity_dict' = fresh
               /\ Has(calls', "compute_dual_sensitivity")
                    => /\ dual_sensitivity' = DualScores(forget_sensitivity_dict',
                                                         retain_sensitivity_dict')
                       /\ decision' = {}]_vars

\* C16 witness: a resumed run whose first counted step was a pruning
\* decision, taken at the saved global_step with an empty forget dict, so
\* that nothing was pruned.
C16_Witness ==
    /\ resume_from_checkpoint > 0
    /\ global_step = resume_from_checkpoint + 1
    /\ Has(calls, "unlearning_prune")
    /\ forget_sensitivity_dict = ZeroGroups
    /\ retain_sensitivity_dict # ZeroGroups
    /\ PrunedSet = {}

\* C17: at every tracker update the gradient the model holds has
\* accumulated batches of the tracker's own stream only.
C17_TrackerOwnStreamOnly ==
    [][Has(calls', "update_sensitivity_dict") => grad_streams \subseteq {stream'}]_vars

\* The last action was a batch of a dataloader.
BatchTaken == total_batched_samples' = total_batched_samples + 1

\* C18: global_step grows by exactly one in every batch, of either stream,
\* that closes an accumulation window, and is left alone by everything else.
C18_GlobalStepByLoopOnly ==
    [][IF /\ BatchTaken
          /\ \/ total_batched_samples' % gradient_accumulation_steps = 0
             \/ /\ retain_len <= gradient_accumulation_steps
                /\ step + 1 = retain_len
       THEN global_step' = global_step + 1
       ELSE global_step' = global_step]_vars

\* C18 witness: a forget batch that advanced global_step by the short-epoch
\* rule, off the shared counter's cadence.
C18_Witness ==
    /\ stream = "forget" /\ CountedStep
    /\ total_batched_samples % gradient_accumulation_steps # 0
    /\ global_step >= 1

\* C20: within an epoch no forget batch follows a retain batch, the retain
\* stream starts only when the forget dataloader is exhausted (or a stop
\* was requested), and pruning happens in retain batches only.
C20_ForgetBeforeRetain ==
    [][/\ (stream = "retain" /\ BatchTaken) => stream' = "retain"
       /\ (stream' = "forget" /\ BatchTaken /\ pc' = "retain")
            => (step + 1 = forget_len \/ should_training_stop' \/ should_epoch_stop')
       /\ (Has(calls', "unlearning_prune") \/ pruned' # pruned)
            => stream' = "retain"
       /\ epoch' # epoch => (epoch' = epoch + 1 /\ stream' = "none")]_vars

\* C20 witness: in a second epoch, a retain batch that pruned, in a run
\* whose forget dataloader holds batches.
C20_Witness ==
    /\ epoch >= 1 /\ forget_len >= 1
    /\ stream = "retain" /\ Has(calls, "unlearning_prune") /\ decision # {}
    /\ forget_sensitivity_dict # ZeroGroups

\* C19: whenever the loop has evaluated the schedule, and in every run that
\* has executed a batch, state.max_steps is a positive integer; a run whose
\* dataloaders have no length and whose args.max_steps is not positive fails
\* before any batch.
C19_ScheduleNeverInvalid ==
    /\ Has(calls, "schedule_sparsity_ratio") => max_steps > 0
    /\ total_batched_samples > 0 => max_steps > 0
    /\ (~has_length /\ args_max_steps <= 0)
          => (pc = "error" /\ total_batched_samples = 0)

\* C19 witness: a run over dataloaders without a length that evaluated the
\* schedule on its way to max_steps.
C19_Witness ==
    /\ ~has_length /\ args_max_steps > 0
    /\ Has(calls, "schedule_sparsity_ratio")
    /\ global_step = max_steps

\* A stop of the training or of the epoch has been requested.
StopFlag == should_training_stop \/ should_epoch_stop

\* C21: after a forget batch at which a stop was requested, the next thing
\* the loop does is one retain batch, which advances global_step and runs
\* the optimizer update exactly when it closes an accumulation window; the
\* retain loop ends with it, and on should_training_stop the run ends.  With
\* the default flow callback alone global_step never exceeds max_steps + 1.
C21_StopInForgetRunsOneRetainBatch ==
    [][/\ (stream = "forget" /\ StopFlag /\ pc # "error")
            => /\ stream' = "retain" /\ BatchTaken
               /\ pc' = "epoch_end"
               /\ IF \/ total_batched_samples' % gradient_accumulation_steps = 0
                     \/ retain_len <= gradient_accumulation_steps /\ retain_len = 1
                  THEN /\ global_step' = global_step + 1
                       /\ Has(calls', "optimizer_update")
                  ELSE /\ global_step' = global_step
                       /\ ~Has(calls', "optimizer_update")
       /\ (stream = "retain" /\ StopFlag /\ pc = "epoch_end")
            => /\ stream' = "none" /\ ~BatchTaken
               /\ should_training_stop => pc' = "done"
       /\ stop_request = NoStopRequest => global_step' <= max_steps + 1]_vars

\* C21 witness: the default flow callback asked to stop in the forget
\* stream, at global_step = max_steps, and the one retain batch that
\* followed, the first of several, ran the optimizer and advanced
\* global_step to max_steps + 1.
C21_Witness ==
    /\ stop_request = NoStopRequest /\ should_training_stop
    /\ forget_len > 0 /\ retain_len > 1
    /\ stream = "retain" /\ pc = "epoch_end" /\ step = 0
    /\ CountedStep /\ Has(calls, "optimizer_update")
    /\ global_step = max_steps + 1

\* C22: every run over sized, non-empty dataloaders, stopped only by the
\* default flow callback, has reached max_steps when it ends.
C22_RunReachesMaxSteps ==
    (forget_len > 0 /\ pc \in {"done", "error"}) => global_step >= max_steps

====
